---- MODULE Spec2Model ----
(***************************************************************************)
(* Model of the locally authored logic of the white-matter-matters         *)
(* notebooks: b_value, ST_equation and viz_gradients of the dMRI signal    *)
(* notebook, and the streamline length filter of the tracking notebooks.   *)
(*                                                                         *)
(* Python floats are modelled by exact rational arithmetic on unbounded    *)
(* naturals (TLC's own integers are 32 bits wide, too narrow for the       *)
(* products b_value forms), so the model follows the code operation by     *)
(* operation but does not round after each one.  np.exp is modelled by a   *)
(* symbolic power of e together with the underflow and overflow limits of  *)
(* binary64.                                                               *)
(***************************************************************************)
EXTENDS Integers, Sequences, FiniteSets

(***************************************************************************)
(* Unbounded naturals: little-endian sequences of limbs below Base, with   *)
(* no most-significant zero limb; <<>> is zero.                            *)
(***************************************************************************)
Base == 100 * 100

RECURSIVE BNat(_)
BNat(k) == IF k = 0 THEN <<>> ELSE <<k % Base>> \o BNat(k \div Base)

BShift(a) == IF a = <<>> THEN <<>> ELSE <<0>> \o a

RECURSIVE BAddC(_, _, _)
BAddC(a, b, c) ==
  IF a = <<>> /\ b = <<>> THEN (IF c = 0 THEN <<>> ELSE <<c>>)
  ELSE LET x == IF a = <<>> THEN 0 ELSE Head(a)
           y == IF b = <<>> THEN 0 ELSE Head(b)
           s == x + y + c
           ra == IF a = <<>> THEN <<>> ELSE Tail(a)
           rb == IF b = <<>> THEN <<>> ELSE Tail(b)
       IN <<s % Base>> \o BAddC(ra, rb, s \div Base)

BAdd(a, b) == BAddC(a, b, 0)

RECURSIVE BCmp(_, _)
\* -1, 0 or 1 as a < b, a = b, a > b
BCmp(a, b) ==
  IF Len(a) # Len(b) THEN (IF Len(a) < Len(b) THEN -1 ELSE 1)
  ELSE IF a = <<>> THEN 0
  ELSE LET n == Len(a)
       IN IF a[n] # b[n] THEN (IF a[n] < b[n] THEN -1 ELSE 1)
          ELSE BCmp(SubSeq(a, 1, n - 1), SubSeq(b, 1, n - 1))

RECURSIVE BSubB(_, _, _)
\* a - b - c for a >= b + c, before the most-significant zeros are dropped
BSubB(a, b, c) ==
  IF a = <<>> THEN <<>>
  ELSE LET y == IF b = <<>> THEN 0 ELSE Head(b)
           rb == IF b = <<>> THEN <<>> ELSE Tail(b)
           t == Head(a) - y - c
       IN IF t < 0 THEN <<t + Base>> \o BSubB(Tail(a), rb, 1)
          ELSE <<t>> \o BSubB(Tail(a), rb, 0)

RECURSIVE BTrim(_)
BTrim(a) == IF a = <<>> THEN <<>>
            ELSE IF a[Len(a)] = 0 THEN BTrim(SubSeq(a, 1, Len(a) - 1)) ELSE a

BSub(a, b) == BTrim(BSubB(a, b, 0))

RECURSIVE BMulS(_, _, _)
\* a * k + c for a limb k
BMulS(a, k, c) ==
  IF a = <<>> THEN (IF c = 0 THEN <<>> ELSE <<c>>)
  ELSE LET p == Head(a) * k + c
       IN <<p % Base>> \o BMulS(Tail(a), k, p \div Base)

RECURSIVE BMul(_, _)
BMul(a, b) ==
  IF a = <<>> \/ b = <<>> THEN <<>>
  ELSE BAdd(IF Head(b) = 0 THEN <<>> ELSE BMulS(a, Head(b), 0),
            BShift(BMul(a, Tail(b))))

(***************************************************************************)
(* Rationals [s, n, d]: sign s in {-1, 0, 1}, magnitude n / d with d > 0.  *)
(* n = <<>> exactly when s = 0.                                            *)
(***************************************************************************)
Abs(k) == IF k < 0 THEN -k ELSE k
Sgn(k) == IF k < 0 THEN -1 ELSE IF k = 0 THEN 0 ELSE 1

RECURSIVE Pow10(_)
Pow10(e) == IF e = 0 THEN <<1>> ELSE BMulS(Pow10(e - 1), 10, 0)

\* a common factor Base of numerator and denominator is dropped
RECURSIVE RRed(_)
RRed(x) ==
  IF x.s = 0 THEN [s |-> 0, n |-> <<>>, d |-> <<1>>]
  ELSE IF Head(x.n) = 0 /\ Head(x.d) = 0
       THEN RRed([s |-> x.s, n |-> Tail(x.n), d |-> Tail(x.d)])
       ELSE x

\* the integer k
RInt(k) == [s |-> Sgn(k), n |-> BNat(Abs(k)), d |-> <<1>>]
\* the decimal literal m * 10^e
RDec(m, e) ==
  IF e >= 0 THEN [s |-> Sgn(m), n |-> BMul(BNat(Abs(m)), Pow10(e)), d |-> <<1>>]
  ELSE [s |-> Sgn(m), n |-> BNat(Abs(m)), d |-> Pow10(-e)]

RMul(x, y) == RRed([s |-> x.s * y.s, n |-> BMul(x.n, y.n), d |-> BMul(x.d, y.d)])
\* x / y for y # 0
RDiv(x, y) == RRed([s |-> x.s * y.s, n |-> BMul(x.n, y.d), d |-> BMul(x.d, y.n)])
RNeg(x) == [s |-> -x.s, n |-> x.n, d |-> x.d]

RAdd(x, y) ==
  IF x.s = 0 THEN y
  ELSE IF y.s = 0 THEN x
  ELSE LET a == BMul(x.n, y.d)
           b == BMul(y.n, x.d)
           d == BMul(x.d, y.d)
           c == BCmp(a, b)
       IN IF x.s = y.s THEN RRed([s |-> x.s, n |-> BAdd(a, b), d |-> d])
          ELSE IF c = 0 THEN [s |-> 0, n |-> <<>>, d |-> <<1>>]
          ELSE IF c > 0 THEN RRed([s |-> x.s, n |-> BSub(a, b), d |-> d])
          ELSE RRed([s |-> y.s, n |-> BSub(b, a), d |-> d])

RSub(x, y) == RAdd(x, RNeg(y))

\* -1, 0 or 1 as x < y, x = y, x > y
RCmp(x, y) ==
  IF x.s # y.s THEN (IF x.s < y.s THEN -1 ELSE 1)
  ELSE IF x.s = 0 THEN 0
  ELSE x.s * BCmp(BMul(x.n, y.d), BMul(y.n, x.d))

RLt(x, y) == RCmp(x, y) < 0
RLe(x, y) == RCmp(x, y) <= 0
REq(x, y) == RCmp(x, y) = 0

RECURSIVE BDivMod(_, _)
\* quotient (an integer below 2^31) and remainder of n by d > 0, by doubling d
BDivMod(n, d) ==
  IF BCmp(n, d) < 0 THEN [q |-> 0, r |-> n]
  ELSE LET h == BDivMod(n, BAdd(d, d))
       IN IF BCmp(h.r, d) >= 0 THEN [q |-> 2 * h.q + 1, r |-> BSub(h.r, d)]
          ELSE [q |-> 2 * h.q, r |-> h.r]

\* Python's int(x): truncation toward zero
PyInt(x) == x.s * BDivMod(x.n, x.d).q

(***************************************************************************)
(* dMRI signal notebook: b_value                                           *)
(***************************************************************************)
\* np.pi, the binary64 nearest to pi, to its 16 printed digits
np_pi == [s |-> 1, n |-> <<9793, 5358, 5926, 3141>>, d |-> Pow10(15)]

\* what a Python call yields: a returned value, or a raised exception
Return(v) == [exc |-> "none", val |-> v]
Raise(e) == [exc |-> e, val |-> RInt(0)]

\* the conversion with g left out: G = 1e-3*1e-6
b_value_G_nog(g) == RMul(RDec(1, -3), RDec(1, -6))

\* G = g*1e-3*1e-6
b_value_G(g) == RMul(RMul(g, RDec(1, -3)), RDec(1, -6))

\* gamma = 2*np.pi*gamma*1e6*1e-3
b_value_gamma(gamma) ==
  RMul(RMul(RMul(RMul(RInt(2), np_pi), gamma), RDec(1, 6)), RDec(1, -3))

\* the last factor with its operands exchanged: delta/3 - Delta
b_value_b_swapped(gamma, G, delta, Delta) ==
  RMul(RMul(RMul(RMul(gamma, gamma), RMul(G, G)), RMul(delta, delta)),
       RSub(RDiv(delta, RInt(3)), Delta))

\* (Delta - delta)/3 for Delta - delta/3
b_value_b_misparsed(gamma, G, delta, Delta) ==
  RMul(RMul(RMul(RMul(gamma, gamma), RMul(G, G)), RMul(delta, delta)),
       RDiv(RSub(Delta, delta), RInt(3)))

\* Delta - delta*3 for Delta - delta/3
b_value_b_times3(gamma, G, delta, Delta) ==
  RMul(RMul(RMul(RMul(gamma, gamma), RMul(G, G)), RMul(delta, delta)),
       RSub(Delta, RMul(delta, RInt(3))))

\* the diffusion time left out of the last factor: delta/3 for Delta - delta/3
b_value_b_noDelta(gamma, G, delta, Delta) ==
  RMul(RMul(RMul(RMul(gamma, gamma), RMul(G, G)), RMul(delta, delta)),
       RDiv(delta, RInt(3)))

\* b = gamma ** 2 * G ** 2 * delta ** 2 * (Delta-delta/3)
b_value_b(gamma, G, delta, Delta) ==
  RMul(RMul(RMul(RMul(gamma, gamma), RMul(G, G)), RMul(delta, delta)),
       RSub(Delta, RDiv(delta, RInt(3))))

\* b_value with a check of the two durations in front of the formula
b_value_validating(g, delta, Delta, gamma) ==
  IF delta.s < 0 \/ Delta.s < 0 THEN Raise("ValueError")
  ELSE LET gamma0 == IF gamma = <<>> THEN RDec(42576, -3) ELSE gamma[1]
       IN Return(RMul(RInt(1000),
                      b_value_b(b_value_gamma(gamma0), b_value_G(g), delta, Delta)))

\* b_value returning b in ms/um^2, without the final factor 1000
b_value_unscaled(g, delta, Delta, gamma) ==
  LET gamma0 == IF gamma = <<>> THEN RDec(42576, -3) ELSE gamma[1]
  IN Return(b_value_b(b_value_gamma(gamma0), b_value_G(g), delta, Delta))

\* def b_value(g, delta, Delta, gamma=42.576); gamma is <<>> when the caller
\* leaves it out and <<v>> when the caller passes v.  The body has no raise
\* statement: every call returns.
b_value(g, delta, Delta, gamma) ==
  LET gamma0 == IF gamma = <<>> THEN RDec(42576, -3) ELSE gamma[1]
  IN Return(RMul(RInt(1000),
                 b_value_b(b_value_gamma(gamma0), b_value_G(g), delta, Delta)))

(***************************************************************************)
(* dMRI signal notebook: ST_equation                                       *)
(*                                                                         *)
(* A value of S0 * np.exp(x) is [k, c, q]: c * e^q when k = "fin" (q = 0   *)
(* when c = 0), and an infinity or a NaN otherwise.  b, D and S0 are       *)
(* integral here, so x is an integer and c is S0.                          *)
(***************************************************************************)
\* the least and the greatest integer x for which binary64 exp(x) is neither
\* 0 nor inf: exp(-745) = 5e-324, exp(-746) = 0.0, exp(709) = 8.2e307,
\* exp(710) = inf
ExpMin == -745
ExpMax == 709

Fin(c, q) == [k |-> "fin", c |-> c, q |-> IF c = 0 THEN 0 ELSE q]
Inf == [k |-> "inf", c |-> 1, q |-> 0]
NInf == [k |-> "inf", c |-> -1, q |-> 0]
NaN == [k |-> "nan", c |-> 0, q |-> 0]

np_exp(x) == IF x < ExpMin THEN Fin(0, 0)
             ELSE IF x > ExpMax THEN Inf
             ELSE Fin(1, x)

\* S0 * v for an integer S0 with |S0| <= 2 (2 * e^709 is below the largest
\* binary64, so the product is finite exactly when v is)
FMul(S0, v) ==
  IF v.k = "nan" THEN NaN
  ELSE IF v.k = "inf" THEN (IF S0 = 0 THEN NaN ELSE IF S0 * v.c > 0 THEN Inf ELSE NInf)
  ELSE Fin(S0 * v.c, v.q)

\* x < y for two values with the same coefficient S0, an infinity, or zero;
\* every comparison with a NaN is false
FLt(x, y) ==
  IF x.k = "nan" \/ y.k = "nan" THEN FALSE
  ELSE IF x.k = "inf" \/ y.k = "inf"
       THEN IF x.k = "inf" /\ y.k = "inf" THEN x.c < y.c
            ELSE IF x.k = "inf" THEN x.c < 0 ELSE y.c > 0
  ELSE IF Sgn(x.c) # Sgn(y.c) THEN Sgn(x.c) < Sgn(y.c)
  ELSE IF x.c > 0 THEN x.q < y.q
  ELSE IF x.c < 0 THEN x.q > y.q
  ELSE FALSE

FEq(x, y) == x.k # "nan" /\ y.k # "nan" /\ x = y
FLe(x, y) == FLt(x, y) \/ FEq(x, y)

\* ST_equation with the sign of the exponent lost: S0 * np.exp(b * D)
ST_equation_positive(b, D, S0) == FMul(S0, np_exp(b * D))

\* ST_equation with a sum in the exponent: S0 * np.exp(-b + D)
ST_equation_sum(b, D, S0) == FMul(S0, np_exp((-b) + D))

\* def ST_equation(b, D, S0=1): return S0 * np.exp(-b * D)
ST_equation(b, D, S0) == FMul(S0, np_exp((-b) * D))

(***************************************************************************)
(* Bounds of the inputs                                                    *)
(***************************************************************************)
MaxG == 2
MaxT == 2
MaxB == 2
MaxD == 3
MaxS0 == 1
MaxTracked == 3
MaxNodes == 12
MaxSteps == 2

(***************************************************************************)
(* dMRI signal notebook: viz_gradients and its sliders                     *)
(***************************************************************************)
\* g=wdg.FloatSlider(min=10, max=300, step=10.0, value=40)
slider_g_min == 10
slider_g_max == 300
slider_g_step == 10
slider_g_value == 40
\* delta=wdg.FloatSlider(min=10, max=40, step=1.0, value=13)
slider_delta_min == 10
slider_delta_max == 40
slider_delta_step == 1
slider_delta_value == 13
\* Delta=wdg.FloatSlider(min=10, max=300, step=10.0, value=60)
slider_Delta_min == 10
slider_Delta_max == 300
slider_Delta_step == 10
slider_Delta_value == 60

\* the slider positions at most MaxSteps steps away from the slider's default,
\* and the two ends of the slider
Positions(min, max, step, value) ==
  {v \in min..max : /\ (v - min) % step = 0
                    /\ \/ Abs(v - value) <= MaxSteps * step
                       \/ v = min \/ v = max}

\* def viz_gradients(g = 40, delta = 13, Delta = 60): what the figure shows
\* once the call is over: b = b_value(g, delta, Delta) and the text
\* 'b=%s'%int(b).  The curves (grad, ST_equation(b/1000., D)) are not kept.
viz_gradients(g, delta, Delta) ==
  LET r == b_value(RInt(g), RInt(delta), RInt(Delta), <<>>)
  IN [g |-> g, delta |-> delta, Delta |-> Delta, b |-> r.val,
      label |-> PyInt(r.val)]

(***************************************************************************)
(* Tracking notebooks: the streamline length filter                        *)
(***************************************************************************)
\* len_th = 10
len_th == 10

\* the filter keeping the streamlines with at least th nodes
LenFilter_atleast(ss, th) == SelectSeq(ss, LAMBDA s : Len(s) >= th)

\* the filter handing back the kept streamlines last to first
LenFilter_reversed(ss, th) ==
  LET kept == SelectSeq(ss, LAMBDA s : Len(s) > th)
  IN [i \in 1..Len(kept) |-> kept[Len(kept) - i + 1]]

\* the filter removing from the list it walks through: the streamline after
\* a removed one is passed over
RECURSIVE LenFilter_inplace(_, _)
LenFilter_inplace(ss, th) ==
  IF ss = <<>> THEN <<>>
  ELSE IF Len(Head(ss)) > th THEN <<Head(ss)>> \o LenFilter_inplace(Tail(ss), th)
  ELSE IF Tail(ss) = <<>> THEN <<>>
  ELSE <<Head(Tail(ss))>> \o LenFilter_inplace(Tail(Tail(ss)), th)

\* the filter cutting the streamlines it keeps down to their first th nodes
LenFilter_cut(ss, th) ==
  LET kept == SelectSeq(ss, LAMBDA s : Len(s) > th)
  IN [i \in 1..Len(kept) |-> SubSeq(kept[i], 1, th)]

\* [s for s in streamlines if s.shape[0]>len_th]; a streamline is the
\* sequence of its nodes, so s.shape[0] is Len(s)
LenFilter(ss, th) == SelectSeq(ss, LAMBDA s : Len(s) > th)

(***************************************************************************)
(* Tracking notebooks: arrays and masks                                    *)
(***************************************************************************)
\* how many times the filter cell is run, at most
MaxRuns == 2
\* voxels of the row of voxels tracked through, at most
MaxRow == 3
\* voxels carrying a label in the segmentation volume, at most
MaxLabelled == 2
\* voxels carrying a value in the volume of the region of interest, at most
MaxROI == 2
\* LocalTracking(...) is called without maxlen: the tracker's own default
\* bounds the steps taken in each direction from a seed
maxlen == 5

\* coordinates are kept in eighths: of a voxel for positions in the volume,
\* of a mm for positions in the scanner. The seeds sit a quarter of a voxel
\* off the centre of their voxel and a step is half a mm.
Unit == 8

Axis(n) == 0..(n - 1)
\* the indices (i, j, k) of a volume of the given shape
Voxels(shape) == Axis(shape[1]) \X Axis(shape[2]) \X Axis(shape[3])

\* a numpy array: its dtype and its elements by index
np_array(dtype, data) == [dtype |-> dtype, data |-> data]
\* a notebook variable that is not assigned yet
NoArray == np_array("none", <<>>)
\* arr.shape of a three-dimensional array
np_shape(arr) == [a \in 1..3 |-> Cardinality({v[a] : v \in DOMAIN arr.data})]
\* the number an element compares as: True is 1 and False is 0
np_number(dtype, x) == IF dtype = "bool" THEN (IF x THEN 1 ELSE 0) ELSE x
\* arr == k
np_equal(arr, k) ==
  np_array("bool",
           [v \in DOMAIN arr.data |-> np_number(arr.dtype, arr.data[v]) = k])
\* a | b on boolean arrays
np_or(a, b) ==
  np_array("bool", [v \in DOMAIN a.data |-> a.data[v] \/ b.data[v]])

\* a mask of the voxels labelled 2 or 3
derive_white_matter_shifted(lab) == np_or(np_equal(lab, 2), np_equal(lab, 3))
\* a mask of the voxels labelled 1
derive_white_matter_left(lab) == np_equal(lab, 1)

\* white_matter = (labels == 1) | (labels == 2)
derive_white_matter(lab) == np_or(np_equal(lab, 1), np_equal(lab, 2))
\* V1 = (LV1_data == 1)
derive_V1(roi) == np_equal(roi, 1)

(***************************************************************************)
(* Tracking notebooks: ndi.gaussian_filter                                 *)
(*                                                                         *)
(* With sigma = 0.25 the kernel has the taps -1, 0, 1 and the weights      *)
(* w1, w0, w1, where w0 = 1/(1 + 2 e^-8) and w1 = e^-8/(1 + 2 e^-8) are    *)
(* positive. A float of the filter is kept exactly, as the polynomial in   *)
(* w0 and w1 it is: after p passes a value is the sum over k of            *)
(* c[k+1] * w0^(p-k) * w1^k, with natural coefficients c.                  *)
(***************************************************************************)
\* the float m (0.0 or 1.0 of a mask)
WVal(m) == [deg |-> 0, c |-> <<m>>]
\* x times the weight of the tap at distance t (0 or 1)
WScale(x, t) ==
  [deg |-> x.deg + 1, c |-> IF t = 0 THEN x.c \o <<0>> ELSE <<0>> \o x.c]
WAdd(x, y) == [deg |-> x.deg, c |-> [k \in 1..Len(x.c) |-> x.c[k] + y.c[k]]]
\* x != 0: the weights are positive and the coefficients natural; the least
\* positive value, w1^3, is about 3.8e-11 and does not underflow
WNonZero(x) == \E k \in 1..Len(x.c) : x.c[k] # 0
\* a float that is a whole number: in a float array made from a mask
WAsInt(x) == x.c[1]

\* arr.astype(float)
astype_float(arr) ==
  np_array("float",
           [v \in DOMAIN arr.data |-> WVal(np_number(arr.dtype, arr.data[v]))])
\* arr.astype(bool): True where the element is not zero
astype_bool(arr) ==
  np_array("bool",
           [v \in DOMAIN arr.data |->
              IF arr.dtype = "float" THEN WNonZero(arr.data[v])
              ELSE np_number(arr.dtype, arr.data[v]) # 0])

\* sigma=0.25
sigma == RDec(25, -2)
\* truncate=4.0, the default of gaussian_filter
truncate == RInt(4)
\* lw = int(truncate * sd + 0.5)
gaussian_radius(sd) == PyInt(RAdd(RMul(truncate, sd), RDec(5, -1)))
\* mode='reflect', the default: (d c b a | a b c d | d c b a)
reflect(i, n) == IF i < 0 THEN -i - 1 ELSE IF i >= n THEN 2 * n - 1 - i ELSE i

\* the taps x..lw of the correlation at voxel v along the axis
RECURSIVE WTaps(_, _, _, _, _, _)
WTaps(arr, v, axis, n, x, lw) ==
  LET t == WScale(arr.data[[v EXCEPT ![axis] = reflect(v[axis] + x, n)]], Abs(x))
  IN IF x = lw THEN t ELSE WAdd(t, WTaps(arr, v, axis, n, x + 1, lw))

gaussian_filter1d(arr, sd, axis) ==
  LET lw == gaussian_radius(sd)
      n == np_shape(arr)[axis]
  IN np_array("float",
              [v \in DOMAIN arr.data |-> WTaps(arr, v, axis, n, -lw, lw)])

\* a blur along the first axis only
gaussian_filter_first_axis(arr, sd) == gaussian_filter1d(arr, sd, 1)

\* one pass along each axis
gaussian_filter(arr, sd) ==
  gaussian_filter1d(gaussian_filter1d(gaussian_filter1d(arr, sd, 1), sd, 2), sd, 3)

\* the voxels the blur adds to the region, without the region itself
extend_V1_rim(roi) ==
  LET blurred == astype_bool(gaussian_filter(astype_float(roi), sigma))
  IN np_array("bool", [v \in DOMAIN roi.data |-> blurred.data[v] /\ ~roi.data[v]])

\* V1_extended = ndi.gaussian_filter(V1.astype(float), sigma=0.25).astype(bool)
extend_V1(roi) == astype_bool(gaussian_filter(astype_float(roi), sigma))

(***************************************************************************)
(* Tracking notebooks: utils.seeds_from_mask                               *)
(***************************************************************************)
\* density=[2, 2, 2]
density == <<2, 2, 2>>

\* np.unravel_index in C order
unravel_index(idx, shape) ==
  <<idx \div (shape[2] * shape[3]), (idx \div shape[3]) % shape[2], idx % shape[3]>>
\* np.argwhere(mask): the indices of the True voxels, in C order
np_argwhere(mask) ==
  LET shape == np_shape(mask)
      N == shape[1] * shape[2] * shape[3]
  IN SelectSeq([n \in 1..N |-> unravel_index(n - 1, shape)],
               LAMBDA v : np_number(mask.dtype, mask.data[v]) # 0)
\* a/d + (.5/d - .5), the place of grid line a of d in the voxel
grid_offset(a, d) == (Unit * a + Unit \div 2 - (Unit \div 2) * d) \div d
\* voxel coordinates to mm
apply_affine(aff, p) ==
  <<aff.zoom * p[1] + Unit * aff.origin[1],
    aff.zoom * p[2] + Unit * aff.origin[2],
    aff.zoom * p[3] + Unit * aff.origin[3]>>
\* mm to voxel coordinates, by the inverse of the affine
to_voxel(aff, P) ==
  <<(P[1] - Unit * aff.origin[1]) \div aff.zoom,
    (P[2] - Unit * aff.origin[2]) \div aff.zoom,
    (P[3] - Unit * aff.origin[3]) \div aff.zoom>>

\* where[:, newaxis, :] + grid[newaxis, :, :], reshaped and mapped to mm:
\* the grid points of a voxel follow each other, the first axis fastest
seeds_from_mask(mask, dens, aff) ==
  LET where == np_argwhere(mask)
      G == dens[1] * dens[2] * dens[3]
      grid(g) == <<g % dens[1], (g \div dens[1]) % dens[2],
                   g \div (dens[1] * dens[2])>>
      seed(n) ==
        LET v == where[(n - 1) \div G + 1]
            ix == grid((n - 1) % G)
        IN apply_affine(aff, <<Unit * v[1] + grid_offset(ix[1], dens[1]),
                               Unit * v[2] + grid_offset(ix[2], dens[2]),
                               Unit * v[3] + grid_offset(ix[3], dens[3])>>)
  IN [n \in 1..(Len(where) * G) |-> seed(n)]

\* one seed at the centre of every voxel of the mask
make_seeds_centres(mask, aff) == seeds_from_mask(mask, <<1, 1, 1>>, aff)

\* seeds = utils.seeds_from_mask(V1_extended, density=[2, 2, 2], affine=affine)
make_seeds(mask, aff) == seeds_from_mask(mask, density, aff)

(***************************************************************************)
(* Tracking notebooks: the stopping criterion and LocalTracking            *)
(***************************************************************************)
ThresholdStoppingCriterion(metric_map, threshold) ==
  [metric_map |-> metric_map, threshold |-> threshold]

\* a criterion that lets the tracking go on where the map is 0
make_classifier_below(wm) == ThresholdStoppingCriterion(astype_float(wm), -1)

\* classifier = ThresholdStoppingCriterion(white_matter.astype(float), 0.0)
make_classifier(wm) == ThresholdStoppingCriterion(astype_float(wm), 0)

\* the point is off the volume along some axis
OutsideImage(shape, P) ==
  \E a \in 1..3 : P[a] < -(Unit \div 2) \/ P[a] >= Unit * shape[a] - Unit \div 2

\* trilinear interpolation of the map at P, times Unit^3; the corners off the
\* volume are clamped to its border
trilinear(arr, P) ==
  LET shape == np_shape(arr)
      flr(a) == P[a] \div Unit
      rel(a) == P[a] % Unit
      w(a, h) == IF h = 0 THEN Unit - rel(a) ELSE rel(a)
      ix(a, h) == IF h = 0 THEN flr(a) + (IF flr(a) = -1 THEN 1 ELSE 0)
                  ELSE flr(a) + (IF flr(a) # shape[a] - 1 THEN 1 ELSE 0)
      corner(h) == w(1, h[1]) * w(2, h[2]) * w(3, h[3])
                     * WAsInt(arr.data[<<ix(1, h[1]), ix(2, h[2]), ix(3, h[3])>>])
  IN corner(<<0, 0, 0>>) + corner(<<0, 0, 1>>) + corner(<<0, 1, 0>>)
       + corner(<<0, 1, 1>>) + corner(<<1, 0, 0>>) + corner(<<1, 0, 1>>)
       + corner(<<1, 1, 0>>) + corner(<<1, 1, 1>>)

\* the status of a point: the tracking goes on where the map is above the
\* threshold
check_point(sc, P) ==
  IF OutsideImage(np_shape(sc.metric_map), P) THEN "OUTSIDEIMAGE"
  ELSE IF trilinear(sc.metric_map, P) > sc.threshold * Unit * Unit * Unit
       THEN "TRACKPOINT"
       ELSE "ENDPOINT"

\* the voxel a point is in
nearest_voxel(P) ==
  <<(P[1] + Unit \div 2) \div Unit, (P[2] + Unit \div 2) \div Unit,
    (P[3] + Unit \div 2) \div Unit>>

\* the model is fitted in the voxels of the mask, and only there
fit(mask) == mask

\* det_track: pnm = peaks_from_model(..., mask=white_matter); the direction
\* at a point is the peak of its voxel, and the voxels off the mask have none.
\* prob_track: sf_fit = sf_model.fit(data, mask=white_matter); the direction
\* at a point is drawn from the interpolated odf, which is zero where no
\* corner of the interpolation is in the mask.
has_direction(nb, wm, P) ==
  IF nb = "det_track"
  THEN LET v == nearest_voxel(P)
       IN v \in DOMAIN wm.data /\ wm.data[v]
  ELSE /\ ~OutsideImage(np_shape(wm), P)
       /\ trilinear(astype_float(wm), P) > 0

\* the peaks of the model lie along the first axis
peak_dir == <<1, 0, 0>>
\* step_size=.5 (mm)
step_size == Unit \div 2
\* point += dir / voxel_size * step_size
fixed_step(P, dir, aff) ==
  <<P[1] + dir[1] * (step_size \div aff.zoom),
    P[2] + dir[2] * (step_size \div aff.zoom),
    P[3] + dir[3] * (step_size \div aff.zoom)>>

\* a tracker whose loop has no bound
LoopExhausted_never(nodes) == FALSE
\* for i in range(1, len_streamlines), the buffers holding maxlen + 1 points
LoopExhausted(nodes) == Len(nodes) >= maxlen + 1

Reverse(q) == [i \in 1..Len(q) |-> q[Len(q) - i + 1]]
\* the length of a streamline along its nodes, in eighths of a mm
path_length(s) == (Len(s) - 1) * step_size

(***************************************************************************)
(* Inputs                                                                  *)
(***************************************************************************)
\* gradient amplitudes, with the default of viz_gradients
GVals == (-MaxG..MaxG) \cup {slider_g_value}
\* pulse durations and diffusion times, with the defaults of viz_gradients
deltaVals == (-1..MaxT) \cup {slider_delta_value}
DeltaVals == (-1..MaxT) \cup {slider_Delta_value}
\* gamma left out, or passed
GammaArgs == {<<>>, <<RInt(1)>>}

\* b in s/mm^2 as the notebook's loop has it, and small values
STbVals == (-1..MaxB) \cup {-1000, 1000, 2000}
STDVals == 0..MaxD
S0Vals == -1..MaxS0

(***************************************************************************)
(* State                                                                   *)
(***************************************************************************)
VARIABLES
  bcalls,       \* the last calls of b_value (at most two), the latest last
  stcalls,      \* the last calls of ST_equation (at most two), the latest last
  vg,           \* what the viz_gradients widget shows
  tracked,      \* the streamlines LocalTracking yielded
  streamlines,  \* the notebook variable streamlines
  stage,        \* the last cell of the tracking notebook that ran
  filter_runs,  \* how many times the filter cell ran
  notebook,     \* the tracking notebook that runs
  affine,       \* the voxel-to-mm transform of the diffusion image
  labels,       \* the segmentation volume
  LV1_data,     \* the volume of the V1 region of interest
  white_matter, \* the notebook variable white_matter
  V1,           \* the notebook variable V1
  dg,           \* where the fitted model has directions (pnm, prob_dg)
  classifier,   \* the notebook variable classifier
  V1_extended,  \* the notebook variable V1_extended (V1_smoothed)
  seeds,        \* the notebook variable seeds
  trk,          \* where the LocalTracking generator is
  render,       \* what the cells that draw the streamlines assigned
  trk_file,     \* the track file save_trk wrote
  error,        \* the exception that stopped the run of the notebook
  pb            \* the plot_bvecs widget: its data, its sliders, what it shows

\* the variables the cells before the LocalTracking cell assign
prep == <<notebook, affine, labels, LV1_data, white_matter, V1, dg, classifier,
          V1_extended, seeds>>

\* the variables the cells after the filter cell assign, and the failure
post == <<render, trk_file, error>>

vars == <<bcalls, stcalls, vg, tracked, streamlines, stage, filter_runs, prep,
          trk, post, pb>>

Last(q) == q[Len(q)]
Keep(q, c) == IF q = <<>> THEN <<c>> ELSE <<Last(q), c>>

BCall(g, delta, Delta, gamma) ==
  [g |-> g, delta |-> delta, Delta |-> Delta, gamma |-> gamma,
   ret |-> b_value(RInt(g), RInt(delta), RInt(Delta), gamma)]

STCall(b, D, S0) == [b |-> b, D |-> D, S0 |-> S0, ret |-> ST_equation(b, D, S0)]

\* the streamline grown from seed k with n nodes
Streamline(k, n) == [i \in 1..n |-> <<k, i>>]

IdleSignal == bcalls = <<>> /\ stcalls = <<>>
IdleViz == vg = viz_gradients(slider_g_value, slider_delta_value, slider_Delta_value)
\* the generator of LocalTracking before it is made
IdleTrk ==
  [seed |-> 0, phase |-> "idle", point |-> <<>>, dir |-> <<>>, F |-> <<>>,
   B |-> <<>>, status |-> "idle"]
IdleAffine == [zoom |-> 1, origin |-> <<0, 0, 0>>]
IdlePrep ==
  /\ notebook = "none" /\ affine = IdleAffine
  /\ labels = NoArray /\ LV1_data = NoArray
  /\ white_matter = NoArray /\ V1 = NoArray /\ V1_extended = NoArray
  /\ dg = NoArray
  /\ classifier = ThresholdStoppingCriterion(NoArray, 0)
  /\ seeds = <<>>
\* nothing drawn, no track file, no failure
NoRender ==
  [t1_aff |-> IdleAffine, color |-> <<>>,
   streamlines_actor |-> [lines |-> <<>>, colors |-> <<>>],
   vol_actor |-> FALSE, png |-> <<>>, displayed |-> FALSE]
NoFile == [name |-> "none", streamlines |-> <<>>, affine |-> IdleAffine, shape |-> <<>>]
NoError == [cell |-> "none", exc |-> "none"]
IdlePost == render = NoRender /\ trk_file = NoFile /\ error = NoError
\* the plot_bvecs widget before it is made
NoWidget ==
  [shape |-> <<>>, bvecs |-> <<>>, elev |-> 0, azim |-> 0, x |-> 0, y |-> 0,
   z |-> 0, out |-> [n |-> 0, raised |-> "none", axis |-> "none"]]
IdlePB == pb = NoWidget
IdleTrack ==
  /\ tracked = <<>> /\ streamlines = <<>> /\ stage = "idle"
  /\ filter_runs = 0 /\ IdlePrep /\ trk = IdleTrk /\ IdlePost

(***************************************************************************)
(* b_value called twice, the second call with one argument changed; the    *)
(* function keeps no state, so a third call would show nothing new         *)
(***************************************************************************)
InitB ==
  /\ \E g \in GVals, delta \in deltaVals, Delta \in DeltaVals, gamma \in GammaArgs :
       bcalls = <<BCall(g, delta, Delta, gamma)>>
  /\ stcalls = <<>>
  /\ IdleViz /\ IdleTrack /\ IdlePB

CallVaryG ==
  /\ Len(bcalls) = 1
  /\ \E g \in GVals \ {Last(bcalls).g} :
       bcalls' = Keep(bcalls, BCall(g, Last(bcalls).delta, Last(bcalls).Delta,
                                    Last(bcalls).gamma))
  /\ UNCHANGED <<stcalls, vg, tracked, streamlines, stage,
               filter_runs, prep, trk, post, pb>>

CallVarydelta ==
  /\ Len(bcalls) = 1
  /\ \E delta \in deltaVals \ {Last(bcalls).delta} :
       bcalls' = Keep(bcalls, BCall(Last(bcalls).g, delta, Last(bcalls).Delta,
                                    Last(bcalls).gamma))
  /\ UNCHANGED <<stcalls, vg, tracked, streamlines, stage,
               filter_runs, prep, trk, post, pb>>

CallVaryDelta ==
  /\ Len(bcalls) = 1
  /\ \E Delta \in DeltaVals \ {Last(bcalls).Delta} :
       bcalls' = Keep(bcalls, BCall(Last(bcalls).g, Last(bcalls).delta, Delta,
                                    Last(bcalls).gamma))
  /\ UNCHANGED <<stcalls, vg, tracked, streamlines, stage,
               filter_runs, prep, trk, post, pb>>

CallVaryGamma ==
  /\ Len(bcalls) = 1
  /\ \E gamma \in GammaArgs \ {Last(bcalls).gamma} :
       bcalls' = Keep(bcalls, BCall(Last(bcalls).g, Last(bcalls).delta,
                                    Last(bcalls).Delta, gamma))
  /\ UNCHANGED <<stcalls, vg, tracked, streamlines, stage,
               filter_runs, prep, trk, post, pb>>

NextB == CallVaryG \/ CallVarydelta \/ CallVaryDelta \/ CallVaryGamma

SpecB == InitB /\ [][NextB]_vars

(***************************************************************************)
(* ST_equation called again and again                                      *)
(***************************************************************************)
InitST ==
  /\ \E b \in STbVals, D \in STDVals, S0 \in S0Vals : stcalls = <<STCall(b, D, S0)>>
  /\ bcalls = <<>>
  /\ IdleViz /\ IdleTrack /\ IdlePB

CallST ==
  /\ \E b \in STbVals, D \in STDVals, S0 \in S0Vals :
       stcalls' = Keep(stcalls, STCall(b, D, S0))
  /\ UNCHANGED <<bcalls, vg, tracked, streamlines, stage,
               filter_runs, prep, trk, post, pb>>

NextST == CallST

SpecST == InitST /\ [][NextST]_vars

(***************************************************************************)
(* The viz_gradients widget: shown at the slider defaults, redrawn by      *)
(* viz_gradients whenever a slider moves                                   *)
(***************************************************************************)
InitViz == IdleSignal /\ IdleViz /\ IdleTrack /\ IdlePB

MoveG ==
  /\ \E g \in Positions(slider_g_min, slider_g_max, slider_g_step, slider_g_value) \ {vg.g} :
       vg' = viz_gradients(g, vg.delta, vg.Delta)
  /\ UNCHANGED <<bcalls, stcalls, tracked, streamlines, stage,
               filter_runs, prep, trk, post, pb>>

Movedelta ==
  /\ \E delta \in Positions(slider_delta_min, slider_delta_max, slider_delta_step,
                              slider_delta_value)
                    \ {vg.delta} :
       vg' = viz_gradients(vg.g, delta, vg.Delta)
  /\ UNCHANGED <<bcalls, stcalls, tracked, streamlines, stage,
               filter_runs, prep, trk, post, pb>>

MoveDelta ==
  /\ \E Delta \in Positions(slider_Delta_min, slider_Delta_max, slider_Delta_step,
                              slider_Delta_value)
                    \ {vg.Delta} :
       vg' = viz_gradients(vg.g, vg.delta, Delta)
  /\ UNCHANGED <<bcalls, stcalls, tracked, streamlines, stage,
               filter_runs, prep, trk, post, pb>>

NextViz == MoveG \/ Movedelta \/ MoveDelta

SpecViz == InitViz /\ [][NextViz]_vars

(***************************************************************************)
(* The plot_bvecs widget of the signal notebook: the volume measured with  *)
(* the gradient closest to the direction of the elev and azim sliders,     *)
(* sliced at the x, y and z sliders.  The angles are whole quarter turns,  *)
(* where sine and cosine are exact.                                        *)
(***************************************************************************)
b0_count == 10
MaxDirs == 2
MaxDim == 2

\* the sine and cosine of a whole number of quarter turns, in degrees
sin(deg) == CASE deg % 360 = 0 -> 0 [] deg % 360 = 90 -> 1
              [] deg % 360 = 180 -> 0 [] deg % 360 = 270 -> -1
cos(deg) == sin(deg + 90)

\* geo.sphere2cart: theta is the polar angle, phi the azimuth
sphere2cart(r, theta, phi) ==
  <<r * sin(theta) * cos(phi), r * sin(theta) * sin(phi), r * cos(theta)>>

np_dot(u, v) == u[1] * v[1] + u[2] * v[2] + u[3] * v[3]

\* np.arccos of a cosine: nan outside [-1, 1]; inside, the angle falls as the
\* cosine grows, so the angle is kept as its cosine
np_arccos(c) == [nan |-> Abs(c) > 1, cos |-> c]

\* np.argmin, 0-based: the first nan if there is one, else the first smallest
np_argmin(angles) ==
  LET I == DOMAIN angles
      Nan == {i \in I : angles[i].nan}
      Min == {i \in I : \A j \in I : angles[j].cos <= angles[i].cos}
      First(S) == CHOOSE i \in S : \A j \in S : i <= j
  IN  (IF Nan # {} THEN First(Nan) ELSE First(Min)) - 1

\* bvecs[:, 10:]
weighted(bv) == SubSeq(bv, b0_count + 1, Len(bv))

\* the volume index without the baseline volumes counted
volume_index_closest(closest) == closest

\* n = closest + 10
volume_index(closest) == closest + b0_count

\* numpy takes the index i along an axis of that size
in_bounds(i, size) == -size <= i /\ i < size

\* data.shape: the three axes of the volume and one volume per gradient
data_shape(shape, bv) == shape \o <<Len(bv)>>

\* plot_bvecs: the volume it selects and the first slice that raises
plot_bvecs(elev, azim, x, y, z, bv, shape) ==
  LET this_vec == sphere2cart(1, elev, azim)
      W == weighted(bv)
      angles == [j \in DOMAIN W |-> np_arccos(np_dot(this_vec, W[j]))]
      closest == np_argmin(angles)
      n == volume_index(closest)
      ds == data_shape(shape, bv)
      bad == IF ~in_bounds(n, Len(bv)) THEN "bvecs"
             ELSE IF ~in_bounds(z, ds[3]) THEN "z"
             ELSE IF ~in_bounds(n, ds[4]) THEN "n"
             ELSE IF ~in_bounds(y, ds[2]) THEN "y"
             ELSE IF ~in_bounds(x, ds[1]) THEN "x"
             ELSE "none"
  IN  [n |-> n, raised |-> IF bad = "none" THEN "none" ELSE "IndexError",
       axis |-> bad]

\* a slider keeps its value between its ends
Clamp(v, min, max) == IF v < min THEN min ELSE IF v > max THEN max ELSE v

\* the positions of the two angle sliders the model visits
Turns == {-180, -90, 0, 90, 180}
elev_value == 0
azim_value == 90

\* the gradient directions of the model; the last is a vector that the
\* rounding of the file left longer than one
Dirs == {<<1, 0, 0>>, <<0, 0, -1>>, <<2, 0, 0>>}
BVecs ==
  {[j \in 1..b0_count |-> <<0, 0, 0>>] \o d :
     d \in UNION {[1..k -> Dirs] : k \in 1..MaxDirs}}
Shapes == [1..3 -> 1..MaxDim]

\* the widget with the sliders there and what plot_bvecs makes of them
Widget(w, elev, azim, x, y, z) ==
  [w EXCEPT !.elev = elev, !.azim = azim, !.x = x, !.y = y, !.z = z,
            !.out = plot_bvecs(elev, azim, x, y, z, w.bvecs, w.shape)]

\* pb_widget displayed: the sliders at their defaults, plot_bvecs run once
InitPB ==
  /\ \E bv \in BVecs, sh \in Shapes :
       pb = Widget([NoWidget EXCEPT !.bvecs = bv, !.shape = sh],
                   elev_value, azim_value,
                   Clamp(sh[1] \div 2, 1, sh[1]), Clamp(sh[2] \div 2, 1, sh[2]),
                   Clamp(sh[3] \div 2, 1, sh[3]))
  /\ IdleSignal /\ IdleViz /\ IdleTrack

MoveElev ==
  /\ \E e \in Turns \ {pb.elev} : pb' = Widget(pb, e, pb.azim, pb.x, pb.y, pb.z)
  /\ UNCHANGED <<bcalls, stcalls, vg, tracked, streamlines, stage, filter_runs,
                 prep, trk, post>>

MoveAzim ==
  /\ \E a \in Turns \ {pb.azim} : pb' = Widget(pb, pb.elev, a, pb.x, pb.y, pb.z)
  /\ UNCHANGED <<bcalls, stcalls, vg, tracked, streamlines, stage, filter_runs,
                 prep, trk, post>>

MoveX ==
  /\ \E x \in (1..pb.shape[1]) \ {pb.x} :
       pb' = Widget(pb, pb.elev, pb.azim, x, pb.y, pb.z)
  /\ UNCHANGED <<bcalls, stcalls, vg, tracked, streamlines, stage, filter_runs,
                 prep, trk, post>>

MoveY ==
  /\ \E y \in (1..pb.shape[2]) \ {pb.y} :
       pb' = Widget(pb, pb.elev, pb.azim, pb.x, y, pb.z)
  /\ UNCHANGED <<bcalls, stcalls, vg, tracked, streamlines, stage, filter_runs,
                 prep, trk, post>>

MoveZ ==
  /\ \E z \in (1..pb.shape[3]) \ {pb.z} :
       pb' = Widget(pb, pb.elev, pb.azim, pb.x, pb.y, z)
  /\ UNCHANGED <<bcalls, stcalls, vg, tracked, streamlines, stage, filter_runs,
                 prep, trk, post>>

NextPB == MoveElev \/ MoveAzim \/ MoveX \/ MoveY \/ MoveZ

SpecPB == InitPB /\ [][NextPB]_vars

(***************************************************************************)
(* The tracking notebooks from the LocalTracking cell on                   *)
(***************************************************************************)
\* node counts of the streamlines yielded: a lone seed, and the counts
\* around len_th
NodeCounts == {1} \cup ((len_th - 1)..MaxNodes)

InitTrack ==
  /\ \E n \in 0..MaxTracked :
       \E count \in [1..n -> NodeCounts] :
         tracked = [k \in 1..n |-> Streamline(k, count[k])]
  /\ streamlines = tracked
  /\ stage = "tracked"
  /\ filter_runs = 0 /\ IdlePrep /\ trk = IdleTrk
  /\ IdleSignal /\ IdleViz /\ IdlePost /\ IdlePB

\* len_th = 10; streamlines = [s for s in streamlines if s.shape[0]>len_th]
\* (the cell can be run again on its own result)
FilterCell ==
  /\ stage \in {"tracked", "filtered"}
  /\ filter_runs < MaxRuns
  /\ streamlines' = LenFilter(streamlines, len_th)
  /\ stage' = "filtered"
  /\ filter_runs' = filter_runs + 1
  /\ UNCHANGED <<bcalls, stcalls, vg, tracked, prep, trk, post, pb>>

NextTrack == FilterCell

SpecTrack == InitTrack /\ [][NextTrack]_vars

(***************************************************************************)
(* The tracking notebooks from the loaded volumes on                       *)
(***************************************************************************)
\* a volume of the shape with the values val in the voxels of S, 0 elsewhere
\* (get_fdata gives floats; the labels are whole numbers and compare as such)
Volume(shape, S, val) ==
  np_array("int", [v \in Voxels(shape) |-> IF v \in S THEN val[v] ELSE 0])
\* the sets of at most n voxels of a volume
Regions(shape, n) == {S \in SUBSET Voxels(shape) : Cardinality(S) <= n}

\* the shape of the volumes the masks and the seeds are made of
VolumeShape == <<3, 2, 2>>
\* labels of the segmentation that are not 0: 1 and 2 are white matter
LabelVals == 1..3
\* values of the volume of the region of interest that are not 0
ROIVals == 1..2
\* voxel sizes in mm
Zooms == {1, 2}

\* the volumes are loaded and no later cell has run
Loaded ==
  /\ white_matter = NoArray /\ V1 = NoArray /\ V1_extended = NoArray
  /\ dg = NoArray
  /\ classifier = ThresholdStoppingCriterion(NoArray, 0)
  /\ seeds = <<>> /\ trk = IdleTrk
  /\ tracked = <<>> /\ streamlines = <<>> /\ filter_runs = 0
  /\ stage = "loaded"
  /\ IdleSignal /\ IdleViz /\ IdlePost /\ IdlePB

\* white_matter = (labels == 1) | (labels == 2); V1 = (LV1_data == 1)
MaskCell ==
  /\ stage = "loaded"
  /\ white_matter' = derive_white_matter(labels)
  /\ V1' = derive_V1(LV1_data)
  /\ stage' = "masks"
  /\ UNCHANGED <<bcalls, stcalls, vg, tracked, streamlines, filter_runs, notebook,
                 affine, labels, LV1_data, classifier, V1_extended, seeds, dg,
                 trk, post, pb>>

\* det_track: pnm = peaks_from_model(dt_model, data, sphere, ...,
\* mask=white_matter); prob_track: sf_fit = sf_model.fit(data,
\* mask=white_matter) and the direction getter made of its odf
FitCell ==
  /\ stage = "masks"
  /\ dg' = fit(white_matter)
  /\ stage' = "fitted"
  /\ UNCHANGED <<bcalls, stcalls, vg, tracked, streamlines, filter_runs, notebook,
                 affine, labels, LV1_data, white_matter, V1, classifier, V1_extended,
                 seeds, trk, post, pb>>

\* classifier = ThresholdStoppingCriterion(white_matter.astype(float), 0.0)
ClassifierCell ==
  /\ stage = "fitted"
  /\ classifier' = make_classifier(white_matter)
  /\ stage' = "classifier"
  /\ UNCHANGED <<bcalls, stcalls, vg, tracked, streamlines, filter_runs, notebook,
                 affine, labels, LV1_data, white_matter, V1, V1_extended, seeds, dg,
                 trk, post, pb>>

\* V1_extended = ndi.gaussian_filter(V1.astype(float), sigma=0.25).astype(bool)
SmoothCell ==
  /\ stage = "classifier"
  /\ V1_extended' = extend_V1(V1)
  /\ stage' = "smoothed"
  /\ UNCHANGED <<bcalls, stcalls, vg, tracked, streamlines, filter_runs, notebook,
                 affine, labels, LV1_data, white_matter, V1, classifier, seeds, dg,
                 trk, post, pb>>

\* seeds = utils.seeds_from_mask(V1_extended, density=[2, 2, 2], affine=affine)
SeedsCell ==
  /\ stage = "smoothed"
  /\ seeds' = make_seeds(V1_extended, affine)
  /\ stage' = "seeds"
  /\ UNCHANGED <<bcalls, stcalls, vg, tracked, streamlines, filter_runs, notebook,
                 affine, labels, LV1_data, white_matter, V1, classifier, V1_extended, dg,
                 trk, post, pb>>

\* the mask cell on a segmentation volume
InitWM ==
  /\ \E S \in Regions(VolumeShape, MaxLabelled) :
       \E val \in [S -> LabelVals] : labels = Volume(VolumeShape, S, val)
  /\ LV1_data = Volume(VolumeShape, {}, <<>>)
  /\ notebook = "det_track" /\ affine = IdleAffine
  /\ Loaded

NextWM == MaskCell \/ FitCell \/ ClassifierCell

SpecWM == InitWM /\ [][NextWM]_vars

\* the cells up to the seeds on a volume of the region of interest
InitROI ==
  /\ labels = Volume(VolumeShape, {}, <<>>)
  /\ \E S \in Regions(VolumeShape, MaxROI) :
       \E val \in [S -> ROIVals] : LV1_data = Volume(VolumeShape, S, val)
  /\ notebook = "det_track"
  /\ \E z \in Zooms : affine = [zoom |-> z, origin |-> <<-z, 0, z>>]
  /\ Loaded

NextROI == MaskCell \/ FitCell \/ ClassifierCell \/ SmoothCell \/ SeedsCell

SpecROI == InitROI /\ [][NextROI]_vars

(***************************************************************************)
(* LocalTracking: the generator the filter cell runs through               *)
(***************************************************************************)
\* streamlines = LocalTracking(pnm, classifier, seeds, affine, step_size=.5)
TrackCell ==
  /\ stage = "seeds"
  /\ trk' = [IdleTrk EXCEPT !.seed = 1, !.phase = "seed"]
  /\ stage' = "tracking"
  /\ UNCHANGED <<bcalls, stcalls, vg, tracked, streamlines, filter_runs, prep, post, pb>>

\* the buffer of the direction tracked
Nodes(t) == IF t.phase = "F" THEN t.F ELSE t.B
\* the loop of the tracker takes one more step
Continues(t) ==
  /\ t.status = "TRACKPOINT"
  /\ ~LoopExhausted(Nodes(t))
  /\ has_direction(notebook, dg, t.point)

\* for s in seeds: the seed in voxel coordinates and its first direction;
\* a seed without a direction is yielded alone
SeedStart ==
  /\ stage = "tracking" /\ trk.phase = "seed" /\ trk.seed <= Len(seeds)
  /\ LET s == to_voxel(affine, seeds[trk.seed])
     IN IF has_direction(notebook, dg, s)
        THEN /\ trk' = [trk EXCEPT !.phase = "F", !.point = s, !.dir = peak_dir,
                                   !.F = <<s>>, !.B = <<s>>,
                                   !.status = "TRACKPOINT"]
             /\ UNCHANGED tracked
        ELSE /\ tracked' = Append(tracked, <<apply_affine(affine, s)>>)
             /\ trk' = [trk EXCEPT !.seed = @ + 1, !.F = <<>>, !.B = <<>>,
                                   !.point = <<>>, !.dir = <<>>,
                                   !.status = "idle"]
  /\ UNCHANGED <<bcalls, stcalls, vg, streamlines, stage, filter_runs, prep, post, pb>>

\* one pass of the loop of the tracker: a step of step_size along the
\* direction and the status of the point reached. The point is kept unless
\* it is off the volume.
TrackerStep ==
  /\ stage = "tracking" /\ trk.phase \in {"F", "B"}
  /\ Continues(trk)
  /\ LET p == fixed_step(trk.point, trk.dir, affine)
         st == check_point(classifier, p)
         nodes == IF st = "OUTSIDEIMAGE" THEN Nodes(trk) ELSE Append(Nodes(trk), p)
     IN trk' = [trk EXCEPT !.point = p, !.status = st,
                           !.F = IF trk.phase = "F" THEN nodes ELSE @,
                           !.B = IF trk.phase = "B" THEN nodes ELSE @]
  /\ UNCHANGED <<bcalls, stcalls, vg, tracked, streamlines, stage, filter_runs, prep, post, pb>>

\* the loop of the tracker has ended: after the first direction the opposite
\* one is tracked from the seed, after both the streamline is yielded in mm
DirectionDone ==
  /\ stage = "tracking" /\ trk.phase \in {"F", "B"}
  /\ ~Continues(trk)
  /\ IF trk.phase = "F"
     THEN /\ trk' = [trk EXCEPT !.phase = "B", !.point = trk.F[1],
                                !.dir = <<-peak_dir[1], -peak_dir[2], -peak_dir[3]>>,
                                !.status = "TRACKPOINT"]
          /\ UNCHANGED tracked
     ELSE LET s == IF Len(trk.B) = 1 THEN trk.F
                   ELSE Reverse(Tail(trk.B)) \o trk.F
          IN /\ tracked' = Append(tracked,
                                  [i \in 1..Len(s) |-> apply_affine(affine, s[i])])
             /\ trk' = [trk EXCEPT !.seed = @ + 1, !.phase = "seed"]
  /\ UNCHANGED <<bcalls, stcalls, vg, streamlines, stage, filter_runs, prep, post, pb>>

\* the seeds are used up: the generator ends
TrackingDone ==
  /\ stage = "tracking" /\ trk.phase = "seed" /\ trk.seed > Len(seeds)
  /\ trk' = [trk EXCEPT !.phase = "done"]
  /\ streamlines' = tracked
  /\ stage' = "tracked"
  /\ UNCHANGED <<bcalls, stcalls, vg, tracked, filter_runs, prep, post, pb>>

Tracker == SeedStart \/ TrackerStep \/ DirectionDone \/ TrackingDone

\* the images of the data directory: a row of voxels, some of them white
\* matter, one of them in V1
Files ==
  UNION {[labels : {Volume(<<n, 1, 1>>, S, [v \in S |-> 1 + (v[1] % 2)]) :
                      S \in SUBSET Voxels(<<n, 1, 1>>)},
          LV1_data : {Volume(<<n, 1, 1>>, {r}, [v \in {r} |-> 1]) :
                        r \in Voxels(<<n, 1, 1>>)},
          affine : {[zoom |-> z, origin |-> <<-z, 0, z>>] : z \in Zooms}] :
         n \in 1..MaxRow}

InitTracker ==
  /\ \E f \in Files :
       labels = f.labels /\ LV1_data = f.LV1_data /\ affine = f.affine
  /\ notebook \in {"det_track", "prob_track"}
  /\ Loaded

NextTracker ==
  \/ MaskCell \/ FitCell \/ ClassifierCell \/ SmoothCell \/ SeedsCell
  \/ TrackCell \/ Tracker \/ FilterCell

SpecTracker == InitTracker /\ [][NextTracker]_vars

\* once the generator is iterated, the interpreter keeps running its loop
SpecTrackerFair == SpecTracker /\ WF_vars(Tracker)

(***************************************************************************)
(* A tracking notebook run from its first cell to its last: the cells that *)
(* draw and save the streamlines, and a cell that raises.  An exception is *)
(* shown under its cell and the cells after it are not run.                *)
(***************************************************************************)
\* the cells of a tracking notebook, named by what is there once they ran
RunOrder ==
  <<"start", "loaded", "masks", "fitted", "classifier", "smoothed", "seeds",
    "tracking", "tracked", "filtered", "t1", "coloured", "actor", "slicer",
    "recorded", "displayed", "saved">>
\* the filter cell and the cells after it have run
Filtered ==
  {"filtered", "t1", "coloured", "actor", "slicer", "recorded", "displayed",
   "saved"}
\* the cell that runs after the one that left the stage st
CellAfter(st) ==
  LET i == CHOOSE j \in DOMAIN RunOrder : RunOrder[j] = st
  IN RunOrder[i + 1]

\* what the libraries raise in the model
Exceptions == {"OSError", "ValueError"}
\* the voxel-to-mm transforms of the T1-weighted image
T1Affines == {[zoom |-> z, origin |-> <<-2, 0, 2>>] : z \in Zooms}

\* colormap.line_colors(streamlines): a colour for a streamline, the absolute
\* direction from its first node to its last, of length one. The streamlines
\* of the model lie along one axis, where the length is the sum.
orient2rgb(v) ==
  LET norm == Abs(v[1]) + Abs(v[2]) + Abs(v[3])
  IN IF norm = 0 THEN <<0, 0, 0>>
     ELSE <<Abs(v[1]) \div norm, Abs(v[2]) \div norm, Abs(v[3]) \div norm>>
line_colors(ss) ==
  [k \in DOMAIN ss |->
     LET a == ss[k][1]
         b == ss[k][Len(ss[k])]
     IN orient2rgb(<<b[1] - a[1], b[2] - a[2], b[3] - a[3]>>)]

\* transform_tracking_output(streamlines, inv(t1_aff)): a new list, each
\* point taken from mm to the voxel coordinates of the T1-weighted image
transform_tracking_output(ss, t1_aff) ==
  [k \in DOMAIN ss |-> [i \in DOMAIN ss[k] |-> to_voxel(t1_aff, ss[k][i])]]

\* actor.streamtube(lines, colors)
streamtube(lines, colors) == [lines |-> lines, colors |-> colors]

\* the actor cell with the transform written into the streamlines themselves
actor_cell_inplace(ss, t1_aff, colors) ==
  [streamlines |-> transform_tracking_output(ss, t1_aff),
   streamlines_actor |->
     streamtube(transform_tracking_output(ss, t1_aff), colors)]

\* streamlines_actor = actor.streamtube(
\*     list(transform_tracking_output(streamlines, inv(t1_aff))), color):
\* what the cell leaves in streamlines and the actor it makes
actor_cell(ss, t1_aff, colors) ==
  [streamlines |-> ss,
   streamlines_actor |->
     streamtube(transform_tracking_output(ss, t1_aff), colors)]

\* save_trk(streamlines, fname, affine, shape): the file it writes
save_trk(ss, fname, aff, shape) ==
  [name |-> fname, streamlines |-> ss, affine |-> aff, shape |-> shape]
trk_name(nb) == IF nb = "det_track" THEN "det-track.trk" ELSE "prob-track.trk"

\* a run goes on to its next cell whatever the cell before it raised
RunContinues_always(err) == TRUE

\* a run goes on to its next cell when no cell has raised
RunContinues(err) == err = NoError

\* dwi_ni, LV1_ni, labels_ni = nib.load(...); affine = dwi_ni.affine;
\* LV1_data = LV1_ni.get_fdata(); labels = labels_ni.get_fdata()
LoadCell ==
  /\ stage = "start"
  /\ \E f \in Files :
       affine' = f.affine /\ LV1_data' = f.LV1_data /\ labels' = f.labels
  /\ stage' = "loaded"
  /\ UNCHANGED <<bcalls, stcalls, vg, tracked, streamlines, filter_runs, notebook,
                 white_matter, V1, dg, classifier, V1_extended, seeds, trk, post,
                 pb>>

\* the filter cell, run once
RunFilterCell == stage = "tracked" /\ FilterCell

\* t1 = nib.load(...); t1_data = t1.get_fdata(); t1_aff = t1.affine
T1Cell ==
  /\ stage = "filtered"
  /\ \E a \in T1Affines : render' = [render EXCEPT !.t1_aff = a]
  /\ stage' = "t1"
  /\ UNCHANGED <<bcalls, stcalls, vg, tracked, streamlines, filter_runs, prep, trk,
                 trk_file, error, pb>>

\* color = colormap.line_colors(streamlines)
ColorCell ==
  /\ stage = "t1"
  /\ render' = [render EXCEPT !.color = line_colors(streamlines)]
  /\ stage' = "coloured"
  /\ UNCHANGED <<bcalls, stcalls, vg, tracked, streamlines, filter_runs, prep, trk,
                 trk_file, error, pb>>

ActorCell ==
  /\ stage = "coloured"
  /\ LET r == actor_cell(streamlines, render.t1_aff, render.color)
     IN /\ streamlines' = r.streamlines
        /\ render' = [render EXCEPT !.streamlines_actor = r.streamlines_actor]
  /\ stage' = "actor"
  /\ UNCHANGED <<bcalls, stcalls, vg, tracked, filter_runs, prep, trk, trk_file,
                 error, pb>>

\* vol_actor = actor.slicer(t1_data); vol_actor.display_extent(...)
SlicerCell ==
  /\ stage = "actor"
  /\ render' = [render EXCEPT !.vol_actor = TRUE]
  /\ stage' = "slicer"
  /\ UNCHANGED <<bcalls, stcalls, vg, tracked, streamlines, filter_runs, prep, trk,
                 trk_file, error, pb>>

\* scene = window.Scene(); scene.add(streamlines_actor); scene.add(vol_actor);
\* window.record(scene, out_path=..., size=(800,800))
RecordCell ==
  /\ stage = "slicer"
  /\ render' = [render EXCEPT !.png = <<render.streamlines_actor>>]
  /\ stage' = "recorded"
  /\ UNCHANGED <<bcalls, stcalls, vg, tracked, streamlines, filter_runs, prep, trk,
                 trk_file, error, pb>>

\* display(Image(filename=...))
DisplayCell ==
  /\ stage = "recorded"
  /\ render' = [render EXCEPT !.displayed = TRUE]
  /\ stage' = "displayed"
  /\ UNCHANGED <<bcalls, stcalls, vg, tracked, streamlines, filter_runs, prep, trk,
                 trk_file, error, pb>>

\* save_trk(streamlines, "det-track.trk", affine, data.shape[:3])
SaveCell ==
  /\ stage = "displayed"
  /\ trk_file' = save_trk(streamlines, trk_name(notebook), affine, np_shape(labels))
  /\ stage' = "saved"
  /\ UNCHANGED <<bcalls, stcalls, vg, tracked, streamlines, filter_runs, prep, trk,
                 render, error, pb>>

\* the next cell raises: its statements up to the one that raised have run,
\* the cell's own stage is not reached
CellRaises ==
  /\ stage # "saved"
  /\ \E e \in Exceptions : error' = [cell |-> CellAfter(stage), exc |-> e]
  /\ \/ UNCHANGED <<affine, LV1_data, white_matter>>
     \/ /\ stage = "start"
        /\ \E f \in Files : /\ affine' = f.affine
                           /\ LV1_data' \in {LV1_data, f.LV1_data}
        /\ UNCHANGED white_matter
     \/ /\ stage = "loaded"
        /\ white_matter' = derive_white_matter(labels)
        /\ UNCHANGED <<affine, LV1_data>>
  /\ UNCHANGED <<bcalls, stcalls, vg, tracked, streamlines, stage, filter_runs,
                 notebook, labels, V1, dg, classifier, V1_extended, seeds, trk,
                 render, trk_file, pb>>

\* nothing has run
InitRun ==
  /\ notebook \in {"det_track", "prob_track"}
  /\ affine = IdleAffine /\ labels = NoArray /\ LV1_data = NoArray
  /\ white_matter = NoArray /\ V1 = NoArray /\ V1_extended = NoArray
  /\ dg = NoArray
  /\ classifier = ThresholdStoppingCriterion(NoArray, 0)
  /\ seeds = <<>> /\ trk = IdleTrk
  /\ tracked = <<>> /\ streamlines = <<>> /\ filter_runs = 0
  /\ stage = "start"
  /\ IdleSignal /\ IdleViz /\ IdlePost /\ IdlePB

\* the run takes its next cell, or the cell raises, while no cell has raised
NextRun ==
  \/ RunContinues(error) /\ LoadCell
  \/ RunContinues(error) /\ MaskCell
  \/ RunContinues(error) /\ FitCell
  \/ RunContinues(error) /\ ClassifierCell
  \/ RunContinues(error) /\ SmoothCell
  \/ RunContinues(error) /\ SeedsCell
  \/ RunContinues(error) /\ TrackCell
  \/ RunContinues(error) /\ Tracker
  \/ RunContinues(error) /\ RunFilterCell
  \/ RunContinues(error) /\ T1Cell
  \/ RunContinues(error) /\ ColorCell
  \/ RunContinues(error) /\ ActorCell
  \/ RunContinues(error) /\ SlicerCell
  \/ RunContinues(error) /\ RecordCell
  \/ RunContinues(error) /\ DisplayCell
  \/ RunContinues(error) /\ SaveCell
  \/ RunContinues(error) /\ CellRaises

SpecRun == InitRun /\ [][NextRun]_vars
(***************************************************************************)
(* Properties                                                              *)
(***************************************************************************)
AtDefaults == vg.g = 40 /\ vg.delta = 13 /\ vg.Delta = 60

\* C1 as stated: b_value(g=40, delta=13, Delta=60, gamma=42.576) lies between
\* 1800 and 2000 s/mm^2 and is the value viz_gradients prints in its label
\* at the default slider settings.
C1_AsClaimed ==
  AtDefaults =>
    /\ REq(vg.b, b_value(RInt(40), RInt(13), RInt(60), <<RDec(42576, -3)>>).val)
    /\ RLe(RInt(1800), vg.b) /\ RLe(vg.b, RInt(2000))
    /\ vg.label = PyInt(vg.b)

\* C1 amended: b_value(g=40, delta=13, Delta=60, gamma=42.576) lies between
\* 1077 and 1078 s/mm^2, and viz_gradients prints its integer part, 1077, in
\* the label at the default slider settings.
C1_DefaultLabel ==
  AtDefaults =>
    /\ REq(vg.b, b_value(RInt(40), RInt(13), RInt(60), <<RDec(42576, -3)>>).val)
    /\ RLe(RInt(1077), vg.b) /\ RLt(vg.b, RInt(1078))
    /\ vg.label = 1077

\* the widget as first shown, viz_gradients having run at the slider defaults
C1_Witness == AtDefaults /\ vg.label = 1077 /\ vg.b.s = 1

BCalls == {bcalls[i] : i \in 1..Len(bcalls)}

\* C2: for g >= 0 and 0 < delta <= Delta, b_value returns a non-negative number.
C2_NonNegative ==
  \A c \in BCalls :
    (c.g >= 0 /\ 0 < c.delta /\ c.delta <= c.Delta) =>
      c.ret.exc = "none" /\ c.ret.val.s >= 0

C2_Witness ==
  /\ Len(bcalls) = 2
  /\ Last(bcalls).g > 0 /\ 0 < Last(bcalls).delta
  /\ Last(bcalls).delta < Last(bcalls).Delta
  /\ Last(bcalls).ret.val.s = 1

\* two calls of b_value, gamma left at its default, that differ in g alone
SameButG(p, c) ==
  p.delta = c.delta /\ p.Delta = c.Delta /\ p.gamma = <<>> /\ c.gamma = <<>>
\* two calls that differ in delta alone, and in Delta alone
SameButdelta(p, c) == p.g = c.g /\ p.Delta = c.Delta /\ p.gamma = c.gamma
SameButDelta(p, c) == p.g = c.g /\ p.delta = c.delta /\ p.gamma = c.gamma

\* C3 as stated: for fixed delta > 0 and Delta > 0, g1 < g2 implies
\* b_value(g1, delta, Delta) < b_value(g2, delta, Delta).
C3_AsClaimed ==
  \A p \in BCalls, c \in BCalls :
    (SameButG(p, c) /\ c.delta > 0 /\ c.Delta > 0 /\ p.g < c.g) =>
      RLt(p.ret.val, c.ret.val)

\* C3 amended: for fixed delta > 0 and Delta > delta/3, 0 <= g1 < g2 implies
\* b_value(g1, delta, Delta) < b_value(g2, delta, Delta).
C3_IncreasingInG ==
  \A p \in BCalls, c \in BCalls :
    (SameButG(p, c) /\ c.delta > 0 /\ 3 * c.Delta > c.delta
       /\ 0 <= p.g /\ p.g < c.g) =>
      RLt(p.ret.val, c.ret.val)

\* a pair with Delta between delta/3 and delta, and one from g = 0 upward
C3_Witness ==
  /\ Len(bcalls) = 2
  /\ SameButG(bcalls[1], bcalls[2])
  /\ bcalls[1].g = 0 /\ bcalls[2].g > 0
  /\ bcalls[2].delta > bcalls[2].Delta /\ 3 * bcalls[2].Delta > bcalls[2].delta
  /\ RLt(bcalls[1].ret.val, bcalls[2].ret.val)

\* the gamma a call uses: 42.576 when the caller leaves it out
GammaUsed(c) == IF c.gamma = <<>> THEN RDec(42576, -3) ELSE c.gamma[1]

\* 1000 * (2*pi*gamma*1e3)^2 * (g*1e-9)^2 * delta^2 * (Delta - delta/3)
ClaimedB(g, delta, Delta, gamma) ==
  LET w == RMul(RMul(RInt(2), np_pi), RMul(gamma, RDec(1, 3)))
      G == RMul(g, RDec(1, -9))
      t == RDiv(RSub(RMul(RInt(3), Delta), delta), RInt(3))
  IN RMul(RInt(1000), RMul(RMul(w, w), RMul(RMul(G, G), RMul(RMul(delta, delta), t))))

\* C4: every call of b_value (each is the latest call in some state) returns
\* 1000 * (2*pi*gamma*1e3)^2 * (g*1e-9)^2 * delta^2 * (Delta - delta/3), with
\* gamma = 42.576 when the caller leaves gamma out.
C4_Formula ==
  LET c == Last(bcalls)
  IN /\ c.ret.exc = "none"
     /\ REq(c.ret.val,
            ClaimedB(RInt(c.g), RInt(c.delta), RInt(c.Delta), GammaUsed(c)))

C4_Witness ==
  /\ Len(bcalls) = 2
  /\ bcalls[1].gamma = <<>> /\ bcalls[2].gamma # <<>>
  /\ bcalls[1].ret.val.s = 1 /\ bcalls[2].ret.val.s = 1
  /\ RLt(bcalls[2].ret.val, bcalls[1].ret.val)

C6_IncreasingIndelta ==
  \A p \in BCalls, c \in BCalls :
    (SameButdelta(p, c) /\ c.g >= 0 /\ 0 < p.delta /\ p.delta < c.delta
       /\ c.delta <= c.Delta) =>
      /\ RLe(p.ret.val, c.ret.val)
      /\ c.g > 0 => RLt(p.ret.val, c.ret.val)

\* delta raised up to Delta itself
C6_Witness ==
  /\ Len(bcalls) = 2
  /\ SameButdelta(bcalls[1], bcalls[2])
  /\ bcalls[2].g > 0
  /\ 0 < bcalls[1].delta /\ bcalls[1].delta < bcalls[2].delta
  /\ bcalls[2].delta = bcalls[2].Delta
  /\ RLt(bcalls[1].ret.val, bcalls[2].ret.val)

\* C7: for fixed g >= 0 and fixed delta > 0, b_value does not decrease as Delta
\* grows within Delta >= delta (and grows strictly when g > 0).
C7_IncreasingInDelta ==
  \A p \in BCalls, c \in BCalls :
    (SameButDelta(p, c) /\ c.g >= 0 /\ 0 < c.delta /\ c.delta <= p.Delta
       /\ p.Delta < c.Delta) =>
      /\ RLe(p.ret.val, c.ret.val)
      /\ c.g > 0 => RLt(p.ret.val, c.ret.val)

\* Delta raised from delta itself
C7_Witness ==
  /\ Len(bcalls) = 2
  /\ SameButDelta(bcalls[1], bcalls[2])
  /\ bcalls[2].g > 0
  /\ 0 < bcalls[1].delta /\ bcalls[1].delta = bcalls[1].Delta
  /\ bcalls[1].Delta < bcalls[2].Delta
  /\ RLt(bcalls[1].ret.val, bcalls[2].ret.val)

STCalls == {stcalls[i] : i \in 1..Len(stcalls)}

\* C8: ST_equation(b, D=0, S0) returns S0 for every b and every S0.
C8_ZeroDiffusivity ==
  \A c \in STCalls : c.D = 0 => FEq(c.ret, Fin(c.S0, 0))

C8_Witness ==
  /\ Last(stcalls).D = 0 /\ Last(stcalls).b = 2000 /\ Last(stcalls).S0 = -1
  /\ Last(stcalls).ret = Fin(-1, 0)

SameButb(p, c) == p.D = c.D /\ p.S0 = c.S0

ExactlyLonger(inp, out, th) ==
  /\ \A i \in 1..Len(inp) :
       (Len(inp[i]) > th) <=> (\E j \in 1..Len(out) : out[j] = inp[i])
  /\ \A j \in 1..Len(out) : \E i \in 1..Len(inp) : inp[i] = out[j]
  /\ Len(out) = Cardinality({i \in 1..Len(inp) : Len(inp[i]) > th})

InSeq(x, q) == \E j \in 1..Len(q) : q[j] = x

\* C11, as the notebook states it: once the filter cell of det_track has run
\* with len_th = 10, every streamline the tracker yielded with 10 nodes or
\* more is among the streamlines kept.
C11_AsClaimed ==
  stage = "filtered" =>
    \A k \in 1..Len(tracked) :
      Len(tracked[k]) >= len_th => InSeq(tracked[k], streamlines)

\* C12, as the notebook states it: every streamline the filter keeps is longer
\* than 5 mm along its nodes, which are step_size apart.
C12_AsClaimed ==
  stage = "filtered" =>
    \A j \in 1..Len(streamlines) : path_length(streamlines[j]) > 5 * Unit

\* C13: the filter does not reorder: the streamlines kept are found in the
\* tracker's output at increasing places.
C13_OrderKept ==
  stage = "filtered" =>
    \E f \in [1..Len(streamlines) -> 1..Len(tracked)] :
      /\ \A j \in 1..Len(streamlines) : tracked[f[j]] = streamlines[j]
      /\ \A i, j \in 1..Len(streamlines) : i < j => f[i] < f[j]
C13_Witness ==
  /\ stage = "filtered"
  /\ Len(tracked) = 3 /\ Len(streamlines) = 2
  /\ Len(tracked[2]) <= len_th
  /\ Len(streamlines[1]) # Len(streamlines[2])

\* C14: the filter is idempotent: a run of the filter cell on what the filter
\* cell left gives the same list of streamlines.
C14_Idempotent ==
  [][stage = "filtered" => streamlines' = streamlines]_vars
C14_Witness ==
  /\ filter_runs = 2
  /\ streamlines # <<>> /\ Len(streamlines) < Len(tracked)

\* C15: a voxel is True in white_matter exactly when its label is 1 or 2.
C15_MaskExact ==
  stage \in {"masks", "fitted", "classifier"} =>
    /\ DOMAIN white_matter.data = DOMAIN labels.data
    /\ \A v \in DOMAIN labels.data :
         white_matter.data[v] <=> (labels.data[v] = 1 \/ labels.data[v] = 2)
C15_Witness ==
  /\ stage = "masks"
  /\ \E u, v \in DOMAIN labels.data :
       /\ labels.data[u] = 2 /\ white_matter.data[u]
       /\ labels.data[v] = 3 /\ ~white_matter.data[v]

\* C16: the derivation of the mask (equal to 1 or equal to 2), applied to the
\* boolean mask it made, gives a mask equal to that mask.
C16_Idempotent ==
  stage \in {"masks", "fitted", "classifier"} =>
    derive_white_matter(white_matter) = white_matter
C16_Witness ==
  /\ stage = "masks"
  /\ \E u, v \in DOMAIN white_matter.data :
       white_matter.data[u] /\ ~white_matter.data[v]

\* C17: smoothing V1 and converting back to bool grows or keeps the region:
\* a voxel that is True in V1 is True in V1_extended.
C17_Grows ==
  stage \in {"smoothed", "seeds"} =>
    \A v \in DOMAIN V1.data : V1.data[v] => V1_extended.data[v]
C17_Witness ==
  /\ stage = "smoothed"
  /\ \E u, v, w \in DOMAIN V1.data :
       /\ V1.data[u] /\ V1_extended.data[u]
       /\ ~V1.data[v] /\ V1_extended.data[v]
       /\ ~V1_extended.data[w]

\* the places in seeds of the seeds lying in voxel v
SeedsIn(v) ==
  {n \in 1..Len(seeds) : nearest_voxel(to_voxel(affine, seeds[n])) = v}

\* C18: with density [2, 2, 2] there are 8 seeds, all different, in every True
\* voxel of the seed mask and none in a False voxel, so 8 times as many seeds
\* as True voxels.
C18_EightPerVoxel ==
  stage = "seeds" =>
    /\ \A v \in DOMAIN V1_extended.data :
         /\ Cardinality(SeedsIn(v)) = IF V1_extended.data[v] THEN 8 ELSE 0
         /\ \A m, n \in SeedsIn(v) : m # n => seeds[m] # seeds[n]
    /\ Len(seeds) =
         8 * Cardinality({v \in DOMAIN V1_extended.data : V1_extended.data[v]})
C18_Witness ==
  /\ stage = "seeds"
  /\ \E u, v \in DOMAIN V1_extended.data :
       V1_extended.data[u] /\ ~V1_extended.data[v]

\* C19: tracking from the seeds ends: no direction of a streamline is tracked
\* beyond the bound on its length, and once the generator is iterated the
\* tracking is over after finitely many steps.
C19_Terminates ==
  /\ [](stage = "tracking" =>
          Len(trk.F) <= maxlen + 1 /\ Len(trk.B) <= maxlen + 1)
  /\ (stage = "tracking") ~> (stage = "tracked")
C19_Witness ==
  /\ stage = "tracked"
  /\ \E k \in 1..Len(tracked) : Len(tracked[k]) = 2 * maxlen + 1
  /\ \E k \in 1..Len(tracked) :
       Len(tracked[k]) > 1 /\ Len(tracked[k]) < 2 * maxlen + 1

\* the value of the white-matter map at a point of the volume, times Unit^3
WMValue(P) == trilinear(astype_float(white_matter), P)

\* C20: with the classifier made of the white-matter mask at threshold 0.0,
\* no step of the tracker starts at a point where the white-matter value is
\* not above 0, and on reaching such a point the stopping criterion ends the
\* tracking in that direction.
C20_StopsAtBoundary ==
  (stage = "tracking" /\ trk.phase \in {"F", "B"}) =>
    /\ \A n \in 1..(Len(trk.F) - 1) : WMValue(trk.F[n]) > 0
    /\ \A n \in 1..(Len(trk.B) - 1) : WMValue(trk.B[n]) > 0
    /\ Continues(trk) => WMValue(trk.point) > 0
    /\ (/\ Len(Nodes(trk)) > 1
        /\ ~OutsideImage(np_shape(white_matter), trk.point)
        /\ ~(WMValue(trk.point) > 0))
         => trk.status = "ENDPOINT" /\ ~Continues(trk)
C20_Witness ==
  /\ stage = "tracking" /\ trk.phase \in {"F", "B"}
  /\ Len(Nodes(trk)) > 2
  /\ trk.status = "ENDPOINT"
  /\ ~(WMValue(trk.point) > 0)

\* the classifier cell has run
ClassifierMade == stage \notin {"idle", "start", "loaded", "masks", "fitted"}

\* C21, as the notebook states it: in the probabilistic tracking notebook the
\* stopping criterion lets the tracking go on only where the map is above 0.1
\* (the threshold of the classifier is 0.1).
C21_AsClaimed ==
  (notebook = "prob_track" /\ ClassifierMade) => 10 * classifier.threshold = 1

\* C24, as claimed: at every setting of the sliders of the viz_gradients
\* widget the b value computed and shown is not negative.
C24_AsClaimed == RLe(RInt(0), vg.b)

\* the voxels within one index step of v along every axis
Around(v, arr) ==
  {u \in DOMAIN arr.data : \A a \in 1..3 : Abs(u[a] - v[a]) <= 1}

\* C27: V1_extended is the one-voxel dilation of V1: a voxel is True in it
\* exactly when the voxel or one within one index step of it along every
\* axis, diagonal neighbours included, is True in V1.
C27_Dilation ==
  stage \in {"smoothed", "seeds"} =>
    \A v \in DOMAIN V1.data :
      V1_extended.data[v] <=> \E u \in Around(v, V1) : V1.data[u]
C27_Witness ==
  /\ stage = "smoothed"
  /\ \E u, v, w \in DOMAIN V1.data :
       /\ V1.data[u] /\ ~V1.data[v] /\ V1_extended.data[v]
       /\ \A a \in 1..3 : Abs(u[a] - v[a]) = 1
       /\ \A t \in Around(v, V1) : V1.data[t] => t = u
       /\ ~V1_extended.data[w]

\* C25, as claimed: at every position of the x, y and z sliders the indices
\* plot_bvecs slices the data with are inside the array, so no setting raises
\* an index error.
C25_AsClaimed == pb.out.raised = "none"

\* C26: plot_bvecs always selects a diffusion-weighted volume: at every
\* elevation and azimuth its index n is at least 10 and less than the number
\* of gradient vectors, so none of the first 10, baseline, volumes is shown.
C26_Weighted ==
  pb # NoWidget =>
    /\ pb.out.n >= 10 /\ pb.out.n < Len(pb.bvecs)
    /\ pb.out.axis \notin {"bvecs", "n"}
C26_Witness ==
  /\ pb # NoWidget /\ pb.elev # elev_value /\ pb.azim # azim_value
  /\ pb.out.n = Len(pb.bvecs) - 1 /\ pb.out.n > 10
  /\ pb.bvecs[pb.out.n + 1] # <<0, 0, 0>>

\* C22: once the volumes are loaded no step changes its inputs: the label and
\* ROI volumes stay as loaded (mask derivation), V1 stays as derived
\* (smoothing), the streamlines the filter keeps are streamlines the tracker
\* yielded, point for point, and colouring, the transform for display,
\* rendering and saving leave the list of streamlines as the filter left it.
C22_InputsKept ==
  [][/\ stage # "start" => labels' = labels /\ LV1_data' = LV1_data
     /\ stage \notin {"start", "loaded"} => V1' = V1
     /\ stage \in {"tracked"} \cup Filtered => tracked' = tracked
     /\ stage' \in Filtered =>
          \A j \in 1..Len(streamlines') : InSeq(streamlines'[j], tracked)
     /\ stage \in Filtered => streamlines' = streamlines]_vars
C22_Witness ==
  /\ stage = "saved" /\ streamlines # <<>>
  /\ render.streamlines_actor.lines # streamlines
  /\ V1_extended # V1

\* C23: in a run from the first cell to the last, once a cell has raised no
\* cell runs, the failing one included: the exception stays as raised, the
\* stage of the run stays where it was, and no track file is written.
C23_FailureStops ==
  /\ [](error # NoError => trk_file = NoFile /\ stage # "saved")
  /\ [][/\ error = NoError
        /\ error' # NoError =>
             /\ stage' = stage /\ error'.cell = CellAfter(stage)
             /\ trk_file' = NoFile]_vars
C23_Witness ==
  /\ error.cell = "saved" /\ stage = "displayed"
  /\ streamlines # <<>> /\ render.displayed /\ trk_file = NoFile

\* the streamlines the image of the scene shows
Rendered == render.png[1].lines

\* C28: in a run from the first cell to the last, the cells that draw and
\* save run after the filter; the streamlines save_trk writes are the tracked
\* streamlines with more than len_th nodes, in the order tracked, in mm; and
\* the streamlines drawn are the saved ones, each point of the drawing being
\* the saved point in the voxel coordinates of the T1-weighted image.
C28_SavedIsFiltered ==
  /\ stage \in Filtered => filter_runs = 1
  /\ (render # NoRender \/ trk_file # NoFile) => stage \in Filtered
  /\ trk_file # NoFile =>
       /\ stage = "saved"
       /\ trk_file.streamlines = SelectSeq(tracked, LAMBDA s : Len(s) > len_th)
       /\ trk_file.affine = affine
       /\ DOMAIN Rendered = DOMAIN trk_file.streamlines
       /\ \A k \in DOMAIN Rendered :
            /\ DOMAIN Rendered[k] = DOMAIN trk_file.streamlines[k]
            /\ \A i \in DOMAIN Rendered[k] :
                 apply_affine(render.t1_aff, Rendered[k][i])
                   = trk_file.streamlines[k][i]
C28_Witness ==
  /\ stage = "saved"
  /\ Len(trk_file.streamlines) >= 2 /\ Len(trk_file.streamlines) < Len(tracked)
  /\ trk_file.streamlines[1] # trk_file.streamlines[2]
  /\ Rendered # trk_file.streamlines
====
